---------------------------- MODULE Spec2Model ----------------------------
(***************************************************************************)
(* The in-memory snake engine of src/lib/serverEngine.ts: the global       *)
(* state {config, monitors, portals, game}, the simulation step, the tick  *)
(* scheduler and the public control surface, driven by a wall clock.       *)
(*                                                                         *)
(* Positions are pixel coordinates held as integers.  Math.random() is an  *)
(* input: a food position is drawn from RandPoints, the integer parts of   *)
(* the offsets Math.random() * (MONITOR_W - 200) and                       *)
(* Math.random() * (MONITOR_H - 200) (snapToGrid floors, so the fraction   *)
(* of the offset never matters).  The id of a food (makeId) is never read  *)
(* by the engine and is left out of the food record.                       *)
(***************************************************************************)
EXTENDS Integers, Sequences, FiniteSets, TLC

\* --------------------------------------------------------------------------
\* Program constants
\* --------------------------------------------------------------------------
MONITOR_W == 1920
MONITOR_H == 1080
DEFAULT_CELL == 30
PORTAL_RADIUS == 80

\* --------------------------------------------------------------------------
\* Bounds of the model
\* --------------------------------------------------------------------------
\* getGameState is called only while the clock has not reached MaxNow.
MaxNow == 135
\* startGame is only taken when it spawns at most MaxFoods foods.
MaxFoods == 2
\* A monitor page issues at most MaxRequests requests.
MaxRequests == 5

\* Inputs
Directions == {"up", "down", "left", "right"}
\* Wall-clock gaps before a getGameState call: half a tick, one tick and a
\* hundred ticks.
Deltas == {45, 90, 9000}
MonitorCounts == {1, 2}
TimerChoices == {1, 60}
FoodChoices == {1}
\* Integer parts of the two random offsets of a food position.  The first
\* lands two cells right of the start cell, the second on the start cell.
RandPoints == {[rx |-> 935, ry |-> 445], [rx |-> 860, ry |-> 440]}

\* config, monitors, portals, game: the fields of GlobalState.
\* now: the wall clock read by Date.now(); it advances between a call and
\* the next getGameState.
\* lastOp, lastArg: the public operation called last and its direction
\* argument ("-" when it has none); prevPhase: the phase that call found;
\* stepsRun: the number of times that call invoked step.
\* held: a snapshot { ...state.game } that a caller of getGameState still
\* holds: the snake and foods arrays it refers to, a copied number (score),
\* and whether those arrays are still the engine's own (live).
\* grid: the arguments and results of the grid conversion functions: a cell
\* size, a position (x, y) in half pixels and a cell (gx, gy).
\* client: the polling loop of a monitor page: the number of requests issued
\* (requestId), lastReceivedId, the requests in flight, and the request
\* whose response is the state shown (0: none yet).
VARIABLES config, monitors, portals, game, now, lastOp, lastArg, prevPhase, stepsRun,
          held, grid, client

vars == <<config, monitors, portals, game, now, lastOp, lastArg, prevPhase, stepsRun,
          held, grid, client>>

\* --------------------------------------------------------------------------
\* Utility functions
\* --------------------------------------------------------------------------
Pos(x, y) == [x |-> x, y |-> y]

snapToGrid(x, y, cell) ==
    LET gx == x \div cell
        gy == y \div cell
    IN  Pos(gx * cell + cell \div 2, gy * cell + cell \div 2)

\* The grid conversion functions on positions counted in half pixels
\* (the pixel position x is the number 2 * x), which keeps cellSize / 2 exact
\* for an odd cellSize: Math.floor(x / cellSize) of the pixel position is
\* x \div (2 * cellSize), and gx * cellSize + cellSize / 2 in half pixels is
\* 2 * gx * cellSize + cellSize.
toGridCellTruncating(x, y, cellSize) ==
    [gx |-> IF x < 0 THEN -((-x) \div (2 * cellSize)) ELSE x \div (2 * cellSize),
     gy |-> IF y < 0 THEN -((-y) \div (2 * cellSize)) ELSE y \div (2 * cellSize)]

toGridCell(x, y, cellSize) ==
    [gx |-> x \div (2 * cellSize),
     gy |-> y \div (2 * cellSize)]

fromGridCell(gx, gy, cellSize) ==
    Pos(2 * gx * cellSize + cellSize, 2 * gy * cellSize + cellSize)

\* snapToGrid as the composition fromGridCell(toGridCell(x, y))
snapToGridCell(x, y, cellSize) ==
    LET c == toGridCell(x, y, cellSize)
    IN  fromGridCell(c.gx, c.gy, cellSize)

\* String(i) of the monitor index
IdStr == <<"0", "1", "2", "3", "4", "5", "6", "7", "8", "9">>

CeilSqrt(n) == CHOOSE c \in 0..n : c * c >= n /\ (c = 0 \/ (c - 1) * (c - 1) < n)

\* generateMonitors that fills columns before rows
generateMonitorsByColumn(count) ==
    LET cols == CeilSqrt(count)
    IN  [k \in 1..count |->
            [id |-> IdStr[k], row |-> (k - 1) % cols, col |-> (k - 1) \div cols]]

generateMonitors(count) ==
    LET cols == CeilSqrt(count)
    IN  [k \in 1..count |->
            [id |-> IdStr[k], row |-> (k - 1) \div cols, col |-> (k - 1) % cols]]

\* generatePortals with every portal leading to the previous monitor
generatePortalsBackward(ms) ==
    [k \in 1..Len(ms) |->
        [from |-> ms[k].id,
         to |-> ms[((k + Len(ms) - 2) % Len(ms)) + 1].id,
         fromPos |-> Pos(MONITOR_W - 80, MONITOR_H \div 2),
         toPos |-> Pos(100, MONITOR_H \div 2)]]

generatePortals(ms) ==
    [k \in 1..Len(ms) |->
        [from |-> ms[k].id,
         to |-> ms[(k % Len(ms)) + 1].id,
         fromPos |-> Pos(MONITOR_W - 80, MONITOR_H \div 2),
         toPos |-> Pos(100, MONITOR_H \div 2)]]

\* Index of the first monitor with this id, 0 if there is none
IndexOfId(ms, id) ==
    IF \E k \in 1..Len(ms) : ms[k].id = id
    THEN CHOOSE k \in 1..Len(ms) :
            ms[k].id = id /\ \A j \in 1..(k - 1) : ms[j].id # id
    ELSE 0

\* monitorOrigin with row and column exchanged
monitorOriginSwapped(ms, id) ==
    LET k == IndexOfId(ms, id)
        m == IF k # 0 THEN k ELSE 1
    IN  IF Len(ms) > 0
        THEN Pos(ms[m].row * MONITOR_W, ms[m].col * MONITOR_H)
        ELSE Pos(0, 0)

monitorOrigin(ms, id) ==
    LET k == IndexOfId(ms, id)
        m == IF k # 0 THEN k ELSE 1
    IN  IF Len(ms) > 0
        THEN Pos(ms[m].col * MONITOR_W, ms[m].row * MONITOR_H)
        ELSE Pos(0, 0)

InMonitor(m, pos) ==
    LET ox == m.col * MONITOR_W
        oy == m.row * MONITOR_H
    IN  pos.x >= ox /\ pos.x < ox + MONITOR_W /\ pos.y >= oy /\ pos.y < oy + MONITOR_H

\* Index of the first monitor whose rectangle contains pos, 0 if none
findMonitor(ms, pos) ==
    IF \E k \in 1..Len(ms) : InMonitor(ms[k], pos)
    THEN CHOOSE k \in 1..Len(ms) :
            InMonitor(ms[k], pos) /\ \A j \in 1..(k - 1) : ~InMonitor(ms[j], pos)
    ELSE 0

\* --------------------------------------------------------------------------
\* Configuration and initial state
\* --------------------------------------------------------------------------
\* createConfig of an absent game.config.json
createConfig ==
    LET speed == 8
    IN  [monitorCount |-> 6,
         timerSeconds |-> 120,
         foodPerMonitor |-> 5,
         gridCellSize |-> DEFAULT_CELL,
         tickIntervalMs |-> 250 - speed * 20,
         snakeSpeed |-> speed]

InitialSnake(cell) ==
    <<snapToGrid(MONITOR_W \div 2, MONITOR_H \div 2, cell),
      snapToGrid(MONITOR_W \div 2 - cell, MONITOR_H \div 2, cell)>>

createInitialGameState(cfg, t) ==
    [phase |-> "idle",
     score |-> 0,
     dir |-> "right",
     nextDir |-> "right",
     snake |-> InitialSnake(cfg.gridCellSize),
     foods |-> <<>>,
     activeMonitorId |-> "0",
     tick |-> 0,
     lastTickTime |-> t,
     timeLeftMs |-> cfg.timerSeconds * 1000,
     totalTimeMs |-> cfg.timerSeconds * 1000]

\* No caller holds a snapshot
NoSnapshot == [taken |-> FALSE, live |-> FALSE, snake |-> <<>>, foods |-> <<>>, score |-> 0]

\* No grid conversion has been called
NoGrid == [cellSize |-> createConfig.gridCellSize, x |-> 0, y |-> 0, gx |-> 0, gy |-> 0]

\* The polling loop of a monitor page before its first request
NoRequests == [requestId |-> 0, lastReceivedId |-> 0, pending |-> {}, shown |-> 0]

Init ==
    /\ now = 0
    /\ config = createConfig
    /\ monitors = generateMonitors(createConfig.monitorCount)
    /\ portals = generatePortals(generateMonitors(createConfig.monitorCount))
    /\ game = createInitialGameState(createConfig, 0)
    /\ lastOp = "init"
    /\ lastArg = "-"
    /\ prevPhase = "idle"
    /\ stepsRun = 0
    /\ held = NoSnapshot
    /\ grid = NoGrid
    /\ client = NoRequests

\* --------------------------------------------------------------------------
\* Food generation
\* --------------------------------------------------------------------------
\* FoodAt without the snap to the grid
FoodAtRaw(m, r, cell) ==
    [x |-> m.col * MONITOR_W + 100 + r.rx,
     y |-> m.row * MONITOR_H + 100 + r.ry,
     monitorId |-> m.id]

\* The food pushed by spawnFoods / respawnFood on monitor m for the random
\* offsets r
FoodAt(m, r, cell) ==
    LET p == snapToGrid(m.col * MONITOR_W + 100 + r.rx, m.row * MONITOR_H + 100 + r.ry, cell)
    IN  [x |-> p.x, y |-> p.y, monitorId |-> m.id]

\* picks[k] is the random offset pair of the k-th food pushed
spawnFoods(ms, cfg, picks) ==
    [k \in 1..(Len(ms) * cfg.foodPerMonitor) |->
        FoodAt(ms[((k - 1) \div cfg.foodPerMonitor) + 1], picks[k], cfg.gridCellSize)]

respawnFood(foods, monitorId, r) ==
    LET k == IndexOfId(monitors, monitorId)
    IN  IF k = 0 THEN foods
        ELSE Append(foods, FoodAt(monitors[k], r, config.gridCellSize))

\* --------------------------------------------------------------------------
\* Game logic
\* --------------------------------------------------------------------------
Abs(n) == IF n < 0 THEN -n ELSE n

RemoveAt(s, i) == SubSeq(s, 1, i - 1) \o SubSeq(s, i + 1, Len(s))

\* Index of the first portal leaving monitor id within PORTAL_RADIUS of the
\* local position, 0 if none
PortalHit(id, localX, localY) ==
    LET Hit(k) ==
            /\ portals[k].from = id
            /\ (localX - portals[k].fromPos.x) * (localX - portals[k].fromPos.x)
                 + (localY - portals[k].fromPos.y) * (localY - portals[k].fromPos.y)
               < PORTAL_RADIUS * PORTAL_RADIUS
    IN  IF \E k \in 1..Len(portals) : Hit(k)
        THEN CHOOSE k \in 1..Len(portals) : Hit(k) /\ \A j \in 1..(k - 1) : ~Hit(j)
        ELSE 0

\* FoodHit with a reach of two cells
FoodHitNear(foods, newHead, cell) ==
    LET Hit(i) ==
            (newHead.x - foods[i].x) * (newHead.x - foods[i].x)
              + (newHead.y - foods[i].y) * (newHead.y - foods[i].y) < 4 * cell * cell
    IN  IF \E i \in 1..Len(foods) : Hit(i)
        THEN CHOOSE i \in 1..Len(foods) : Hit(i) /\ \A j \in (i + 1)..Len(foods) : ~Hit(j)
        ELSE 0

\* The food loop of step: the last food of the list closer than one cell to
\* the new head, 0 if none
FoodHit(foods, newHead, cell) ==
    LET Hit(i) ==
            (newHead.x - foods[i].x) * (newHead.x - foods[i].x)
              + (newHead.y - foods[i].y) * (newHead.y - foods[i].y) < cell * cell
    IN  IF \E i \in 1..Len(foods) : Hit(i)
        THEN CHOOSE i \in 1..Len(foods) : Hit(i) /\ \A j \in (i + 1)..Len(foods) : ~Hit(j)
        ELSE 0

\* SelfHit that skips only the head and the segment behind it
SelfHitFromTwo(snake, newHead, cell) ==
    \E i \in 3..Len(snake) :
        /\ 2 * Abs(newHead.x - snake[i].x) < cell
        /\ 2 * Abs(newHead.y - snake[i].y) < cell

\* Self collision of the moved snake: segments of index 3 and beyond
\* (counted from 0) against the new head
SelfHit(snake, newHead, cell) ==
    \E i \in 4..Len(snake) :
        /\ 2 * Abs(newHead.x - snake[i].x) < cell
        /\ 2 * Abs(newHead.y - snake[i].y) < cell

\* Move that drops the tail even when a food was eaten
MoveDropTail(g, newHead, r) ==
    LET cell == config.gridCellSize
        moved == <<newHead>> \o g.snake
        fi == FoodHit(g.foods, newHead, cell)
        ate == fi # 0
        foods2 == IF ate
                  THEN respawnFood(RemoveAt(g.foods, fi), g.foods[fi].monitorId, r)
                  ELSE g.foods
        snake2 == SubSeq(moved, 1, Len(moved) - 1)
        hit == SelfHit(snake2, newHead, cell)
    IN  [g EXCEPT !.snake = snake2,
                  !.foods = foods2,
                  !.score = IF ate THEN @ + 10 ELSE @,
                  !.phase = IF hit THEN "ended" ELSE @,
                  !.tick = IF hit THEN @ ELSE @ + 1]

\* Move that adds 10 to the score whether or not a food was eaten
MoveScoreAlways(g, newHead, r) ==
    LET cell == config.gridCellSize
        moved == <<newHead>> \o g.snake
        fi == FoodHit(g.foods, newHead, cell)
        ate == fi # 0
        foods2 == IF ate
                  THEN respawnFood(RemoveAt(g.foods, fi), g.foods[fi].monitorId, r)
                  ELSE g.foods
        snake2 == IF ate THEN moved ELSE SubSeq(moved, 1, Len(moved) - 1)
        hit == SelfHit(snake2, newHead, cell)
    IN  [g EXCEPT !.snake = snake2,
                  !.foods = foods2,
                  !.score = @ + 10,
                  !.phase = IF hit THEN "ended" ELSE @,
                  !.tick = IF hit THEN @ ELSE @ + 1]

\* Move that keeps only the head when it detects a self collision
MoveCutOnHit(g, newHead, r) ==
    LET cell == config.gridCellSize
        moved == <<newHead>> \o g.snake
        fi == FoodHit(g.foods, newHead, cell)
        ate == fi # 0
        foods2 == IF ate
                  THEN respawnFood(RemoveAt(g.foods, fi), g.foods[fi].monitorId, r)
                  ELSE g.foods
        snake2 == IF ate THEN moved ELSE SubSeq(moved, 1, Len(moved) - 1)
        hit == SelfHit(snake2, newHead, cell)
    IN  [g EXCEPT !.snake = IF hit THEN <<newHead>> ELSE snake2,
                  !.foods = foods2,
                  !.score = IF ate THEN @ + 10 ELSE @,
                  !.phase = IF hit THEN "ended" ELSE @,
                  !.tick = IF hit THEN @ ELSE @ + 1]

\* The second half of step, from "Move snake" on
Move(g, newHead, r) ==
    LET cell == config.gridCellSize
        moved == <<newHead>> \o g.snake
        fi == FoodHit(g.foods, newHead, cell)
        ate == fi # 0
        foods2 == IF ate
                  THEN respawnFood(RemoveAt(g.foods, fi), g.foods[fi].monitorId, r)
                  ELSE g.foods
        snake2 == IF ate THEN moved ELSE SubSeq(moved, 1, Len(moved) - 1)
        hit == SelfHit(snake2, newHead, cell)
    IN  [g EXCEPT !.snake = snake2,
                  !.foods = foods2,
                  !.score = IF ate THEN @ + 10 ELSE @,
                  !.phase = IF hit THEN "ended" ELSE @,
                  !.tick = IF hit THEN @ ELSE @ + 1]

\* step that pushes the head into the wall before it ends the game
stepIntoWall(g, r) ==
    IF g.phase # "running" THEN g
    ELSE
    LET cell == config.gridCellSize
        head == g.snake[1]
        d == g.nextDir
        dx == IF d = "left" THEN -cell ELSE IF d = "right" THEN cell ELSE 0
        dy == IF d = "up" THEN -cell ELSE IF d = "down" THEN cell ELSE 0
        cand == Pos(head.x + dx, head.y + dy)
        cm == findMonitor(monitors, head)
    IN  IF cm = 0
        THEN Move([g EXCEPT !.dir = d],
                  snapToGrid(MONITOR_W \div 2, MONITOR_H \div 2, cell), r)
        ELSE
        LET ox == monitors[cm].col * MONITOR_W
            oy == monitors[cm].row * MONITOR_H
            localX == cand.x - ox
            localY == cand.y - oy
            pk == PortalHit(monitors[cm].id, localX, localY)
        IN  IF pk # 0
            THEN LET toOrigin == monitorOrigin(monitors, portals[pk].to)
                 IN  Move([g EXCEPT !.dir = d, !.activeMonitorId = portals[pk].to],
                          snapToGrid(toOrigin.x + portals[pk].toPos.x,
                                     toOrigin.y + portals[pk].toPos.y, cell), r)
            ELSE IF \/ localX < cell \/ localX > MONITOR_W - cell
                    \/ localY < cell \/ localY > MONITOR_H - cell
                 THEN [Move([g EXCEPT !.dir = d], cand, r) EXCEPT !.phase = "ended"]
                 ELSE Move([g EXCEPT !.dir = d], cand, r)

\* step that checks the wall before it looks for a portal
stepWallFirst(g, r) ==
    IF g.phase # "running" THEN g
    ELSE
    LET cell == config.gridCellSize
        head == g.snake[1]
        d == g.nextDir
        dx == IF d = "left" THEN -cell ELSE IF d = "right" THEN cell ELSE 0
        dy == IF d = "up" THEN -cell ELSE IF d = "down" THEN cell ELSE 0
        cand == Pos(head.x + dx, head.y + dy)
        cm == findMonitor(monitors, head)
    IN  IF cm = 0
        THEN Move([g EXCEPT !.dir = d],
                  snapToGrid(MONITOR_W \div 2, MONITOR_H \div 2, cell), r)
        ELSE
        LET ox == monitors[cm].col * MONITOR_W
            oy == monitors[cm].row * MONITOR_H
            localX == cand.x - ox
            localY == cand.y - oy
            pk == PortalHit(monitors[cm].id, localX, localY)
        IN  IF \/ localX < cell \/ localX > MONITOR_W - cell
               \/ localY < cell \/ localY > MONITOR_H - cell
            THEN [g EXCEPT !.dir = d, !.phase = "ended"]
            ELSE IF pk # 0
                 THEN LET toOrigin == monitorOrigin(monitors, portals[pk].to)
                      IN  Move([g EXCEPT !.dir = d, !.activeMonitorId = portals[pk].to],
                               snapToGrid(toOrigin.x + portals[pk].toPos.x,
                                          toOrigin.y + portals[pk].toPos.y, cell), r)
                 ELSE Move([g EXCEPT !.dir = d], cand, r)

\* One simulation step of game state g; r is the random offset pair used if
\* a food is respawned
step(g, r) ==
    IF g.phase # "running" THEN g
    ELSE
    LET cell == config.gridCellSize
        head == g.snake[1]
        d == g.nextDir
        dx == IF d = "left" THEN -cell ELSE IF d = "right" THEN cell ELSE 0
        dy == IF d = "up" THEN -cell ELSE IF d = "down" THEN cell ELSE 0
        cand == Pos(head.x + dx, head.y + dy)
        cm == findMonitor(monitors, head)
    IN  IF cm = 0
        THEN Move([g EXCEPT !.dir = d],
                  snapToGrid(MONITOR_W \div 2, MONITOR_H \div 2, cell), r)
        ELSE
        LET ox == monitors[cm].col * MONITOR_W
            oy == monitors[cm].row * MONITOR_H
            localX == cand.x - ox
            localY == cand.y - oy
            pk == PortalHit(monitors[cm].id, localX, localY)
        IN  IF pk # 0
            THEN LET toOrigin == monitorOrigin(monitors, portals[pk].to)
                 IN  Move([g EXCEPT !.dir = d, !.activeMonitorId = portals[pk].to],
                          snapToGrid(toOrigin.x + portals[pk].toPos.x,
                                     toOrigin.y + portals[pk].toPos.y, cell), r)
            ELSE IF \/ localX < cell \/ localX > MONITOR_W - cell
                    \/ localY < cell \/ localY > MONITOR_H - cell
                 THEN [g EXCEPT !.dir = d, !.phase = "ended"]
                 ELSE Move([g EXCEPT !.dir = d], cand, r)

Min(a, b) == IF a < b THEN a ELSE b

\* maxTicks with the cap of ten steps instead of five
maxTicksTen(ticks) == Min(ticks, 10)

\* The number of steps processTicks runs for the ticks owed
maxTicks(ticks) == Min(ticks, 5)

\* The loop of processTicks: n more iterations from each run of S; a run is
\* a game state with the number of step calls made so far
RECURSIVE RunSteps(_, _)
RunSteps(S, n) ==
    IF n = 0 THEN S
    ELSE RunSteps(UNION {IF e.g.phase = "running"
                         THEN {[g |-> step(e.g, r), steps |-> e.steps + 1] : r \in RandPoints}
                         ELSE {e} : e \in S},
                  n - 1)

\* processTicks that runs the owed steps before it looks at the timer
processTicksStepFirst(g, t) ==
    IF g.phase # "running" THEN {[g |-> g, steps |-> 0]}
    ELSE
    LET elapsed == t - g.lastTickTime
        g1 == [g EXCEPT !.timeLeftMs = @ - elapsed]
        ticks == elapsed \div config.tickIntervalMs
        runs == IF ticks > 0
                THEN {[g |-> [e.g EXCEPT !.lastTickTime = t], steps |-> e.steps] :
                         e \in RunSteps({[g |-> g1, steps |-> 0]}, maxTicks(ticks))}
                ELSE {[g |-> g1, steps |-> 0]}
    IN  {IF e.g.timeLeftMs <= 0
         THEN [g |-> [e.g EXCEPT !.phase = "ended"], steps |-> e.steps]
         ELSE e : e \in runs}

\* processTicks that never ends the round when the time is up
processTicksNoExpiry(g, t) ==
    IF g.phase # "running" THEN {[g |-> g, steps |-> 0]}
    ELSE
    LET elapsed == t - g.lastTickTime
        g1 == [g EXCEPT !.timeLeftMs = @ - elapsed]
        ticks == elapsed \div config.tickIntervalMs
    IN  IF ticks > 0
        THEN {[g |-> [e.g EXCEPT !.lastTickTime = t], steps |-> e.steps] :
                 e \in RunSteps({[g |-> g1, steps |-> 0]}, maxTicks(ticks))}
        ELSE {[g |-> g1, steps |-> 0]}

\* processTicks without the early return for a phase other than running
processTicksAnyPhase(g, t) ==
    LET elapsed == t - g.lastTickTime
        g1 == [g EXCEPT !.timeLeftMs = @ - elapsed]
        ticks == elapsed \div config.tickIntervalMs
    IN  IF g1.timeLeftMs <= 0
        THEN {[g |-> [g1 EXCEPT !.phase = "ended"], steps |-> 0]}
        ELSE IF ticks > 0
             THEN {[g |-> [e.g EXCEPT !.lastTickTime = t], steps |-> e.steps] :
                      e \in RunSteps({[g |-> g1, steps |-> 0]}, maxTicks(ticks))}
             ELSE {[g |-> g1, steps |-> 0]}

\* The runs of processTicks on game state g when Date.now() returns t
processTicks(g, t) ==
    IF g.phase # "running" THEN {[g |-> g, steps |-> 0]}
    ELSE
    LET elapsed == t - g.lastTickTime
        g1 == [g EXCEPT !.timeLeftMs = @ - elapsed]
        ticks == elapsed \div config.tickIntervalMs
    IN  IF g1.timeLeftMs <= 0
        THEN {[g |-> [g1 EXCEPT !.phase = "ended"], steps |-> 0]}
        ELSE IF ticks > 0
             THEN {[g |-> [e.g EXCEPT !.lastTickTime = t], steps |-> e.steps] :
                      e \in RunSteps({[g |-> g1, steps |-> 0]}, maxTicks(ticks))}
             ELSE {[g |-> g1, steps |-> 0]}

\* --------------------------------------------------------------------------
\* Public API
\* --------------------------------------------------------------------------
\* The record of a call: its name, its direction argument and the phase it
\* found
Called(op, arg) ==
    /\ lastOp' = op
    /\ lastArg' = arg
    /\ prevPhase' = game.phase

\* StartedGame that forgets to clear the score and the tick counter
StartedGameKeepScore(picks) ==
    [game EXCEPT !.phase = "running",
                 !.dir = "right",
                 !.nextDir = "right",
                 !.snake = InitialSnake(config.gridCellSize),
                 !.activeMonitorId = "0",
                 !.lastTickTime = now,
                 !.timeLeftMs = config.timerSeconds * 1000,
                 !.totalTimeMs = config.timerSeconds * 1000,
                 !.foods = spawnFoods(monitors, config, picks)]

\* The game state startGame leaves when the phase is not running
StartedGame(picks) ==
    [game EXCEPT !.phase = "running",
                 !.score = 0,
                 !.dir = "right",
                 !.nextDir = "right",
                 !.snake = InitialSnake(config.gridCellSize),
                 !.activeMonitorId = "0",
                 !.tick = 0,
                 !.lastTickTime = now,
                 !.timeLeftMs = config.timerSeconds * 1000,
                 !.totalTimeMs = config.timerSeconds * 1000,
                 !.foods = spawnFoods(monitors, config, picks)]

\* startGame without the early return of a running game
startGameAlways ==
    /\ Len(monitors) * config.foodPerMonitor <= MaxFoods
    /\ \E picks \in [1..(Len(monitors) * config.foodPerMonitor) -> RandPoints] :
          game' = StartedGame(picks)
    /\ Called("start", "-") /\ stepsRun' = 0
    /\ UNCHANGED <<config, monitors, portals, now>>

startGame ==
    /\ Len(monitors) * config.foodPerMonitor <= MaxFoods
    /\ \/ /\ game.phase = "running"
          /\ game' = game
       \/ /\ game.phase # "running"
          /\ \E picks \in [1..(Len(monitors) * config.foodPerMonitor) -> RandPoints] :
                game' = StartedGame(picks)
    /\ Called("start", "-") /\ stepsRun' = 0
    /\ UNCHANGED <<config, monitors, portals, now>>

\* stopGameAction that returns the game to idle
stopGameActionIdle ==
    /\ game' = [game EXCEPT !.phase = "idle"]
    /\ Called("stop", "-") /\ stepsRun' = 0
    /\ UNCHANGED <<config, monitors, portals, now>>

\* stopGameAction that also clears the board
stopGameActionClear ==
    /\ game' = [game EXCEPT !.phase = "ended", !.foods = <<>>]
    /\ Called("stop", "-") /\ stepsRun' = 0
    /\ UNCHANGED <<config, monitors, portals, now>>

stopGameAction ==
    /\ game' = [game EXCEPT !.phase = "ended"]
    /\ Called("stop", "-") /\ stepsRun' = 0
    /\ UNCHANGED <<config, monitors, portals, now>>

\* resetGame that leaves the food list alone, as startGame's reset part does
resetGameKeepFood ==
    /\ game' = [game EXCEPT !.phase = "idle",
                            !.score = 0,
                            !.dir = "right",
                            !.nextDir = "right",
                            !.snake = InitialSnake(config.gridCellSize),
                            !.activeMonitorId = "0",
                            !.tick = 0,
                            !.lastTickTime = now,
                            !.timeLeftMs = config.timerSeconds * 1000,
                            !.totalTimeMs = config.timerSeconds * 1000]
    /\ Called("reset", "-") /\ stepsRun' = 0
    /\ UNCHANGED <<config, monitors, portals, now>>

resetGame ==
    /\ game' = [game EXCEPT !.phase = "idle",
                            !.score = 0,
                            !.dir = "right",
                            !.nextDir = "right",
                            !.snake = InitialSnake(config.gridCellSize),
                            !.foods = <<>>,
                            !.activeMonitorId = "0",
                            !.tick = 0,
                            !.lastTickTime = now,
                            !.timeLeftMs = config.timerSeconds * 1000,
                            !.totalTimeMs = config.timerSeconds * 1000]
    /\ Called("reset", "-") /\ stepsRun' = 0
    /\ UNCHANGED <<config, monitors, portals, now>>

opposite(d) ==
    CASE d = "up" -> "down"
      [] d = "down" -> "up"
      [] d = "left" -> "right"
      [] d = "right" -> "left"

\* setDirection without the reversal check
DirectedGameNoCheck(g, d) ==
    IF g.phase # "running" THEN g ELSE [g EXCEPT !.nextDir = d]

\* setDirection that checks the reversal against the buffered direction
DirectedGameVsNext(g, d) ==
    IF g.phase # "running" THEN g
    ELSE IF opposite(d) # g.nextDir THEN [g EXCEPT !.nextDir = d] ELSE g

\* setDirection that processes the owed ticks before it buffers
DirectedGameTicking(g, d) ==
    LET g1 == (CHOOSE e \in processTicks(g, now) : TRUE).g
    IN  IF g1.phase # "running" THEN g1
        ELSE IF opposite(d) # g1.dir THEN [g1 EXCEPT !.nextDir = d] ELSE g1

\* setDirection that turns the snake at once instead of buffering
DirectedGameImmediate(g, d) ==
    IF g.phase # "running" THEN g
    ELSE IF opposite(d) # g.dir THEN [g EXCEPT !.nextDir = d, !.dir = d] ELSE g

\* The game state setDirection(d) leaves
DirectedGame(g, d) ==
    IF g.phase # "running" THEN g
    ELSE IF opposite(d) # g.dir THEN [g EXCEPT !.nextDir = d] ELSE g

setDirection(d) ==
    /\ game' = DirectedGame(game, d)
    /\ Called("setDirection", d) /\ stepsRun' = 0
    /\ UNCHANGED <<config, monitors, portals, now>>

\* getGameState called d milliseconds of wall-clock time after the previous
\* call of the engine
getGameState(d) ==
    /\ now < MaxNow
    /\ now' = now + d
    /\ \E e \in processTicks(game, now + d) :
          /\ game' = e.g
          /\ stepsRun' = e.steps
    /\ Called("getGameState", "-")
    /\ UNCHANGED <<config, monitors, portals>>

\* Object.assign(state.config, newConfig)
updateConfigRearm(newConfig) ==
    LET cfg == [k \in DOMAIN config |->
                  IF k \in DOMAIN newConfig THEN newConfig[k] ELSE config[k]]
    IN  /\ config' = cfg
        /\ game' = [game EXCEPT !.timeLeftMs = cfg.timerSeconds * 1000,
                                !.totalTimeMs = cfg.timerSeconds * 1000]
        /\ Called("updateConfig", "-") /\ stepsRun' = 0
        /\ UNCHANGED <<monitors, portals, now>>

updateConfig(newConfig) ==
    /\ config' = [k \in DOMAIN config |->
                    IF k \in DOMAIN newConfig THEN newConfig[k] ELSE config[k]]
    /\ Called("updateConfig", "-") /\ stepsRun' = 0
    /\ UNCHANGED <<monitors, portals, game, now>>

\* setupGame that keeps the portals of the layout before
setupGameKeepPortals(monitorCount, timerSeconds, foodPerMonitor) ==
    LET cfg == [config EXCEPT !.monitorCount = monitorCount,
                              !.timerSeconds = timerSeconds,
                              !.foodPerMonitor = foodPerMonitor]
    IN  /\ config' = cfg
        /\ monitors' = generateMonitors(monitorCount)
        /\ portals' = portals
        /\ game' = createInitialGameState(cfg, now)
        /\ Called("setup", "-") /\ stepsRun' = 0
        /\ UNCHANGED now

\* setupGame that keeps the game state of a running round
setupGameKeepRound(monitorCount, timerSeconds, foodPerMonitor) ==
    LET cfg == [config EXCEPT !.monitorCount = monitorCount,
                              !.timerSeconds = timerSeconds,
                              !.foodPerMonitor = foodPerMonitor]
    IN  /\ config' = cfg
        /\ monitors' = generateMonitors(monitorCount)
        /\ portals' = generatePortals(generateMonitors(monitorCount))
        /\ game' = IF game.phase = "running" THEN game
                   ELSE createInitialGameState(cfg, now)
        /\ Called("setup", "-") /\ stepsRun' = 0
        /\ UNCHANGED now

setupGame(monitorCount, timerSeconds, foodPerMonitor) ==
    LET cfg == [config EXCEPT !.monitorCount = monitorCount,
                              !.timerSeconds = timerSeconds,
                              !.foodPerMonitor = foodPerMonitor]
    IN  /\ config' = cfg
        /\ monitors' = generateMonitors(monitorCount)
        /\ portals' = generatePortals(generateMonitors(monitorCount))
        /\ game' = createInitialGameState(cfg, now)
        /\ Called("setup", "-") /\ stepsRun' = 0
        /\ UNCHANGED now

\* The partial configurations passed to updateConfig
PartialConfigs ==
    {[timerSeconds |-> 1], [foodPerMonitor |-> 1]}

\* The calls of the API routes; every caller drops the snapshot it is
\* returned as soon as it has serialised it.
Next ==
    /\ \/ startGame
       \/ stopGameAction
       \/ resetGame
       \/ \E d \in Directions : setDirection(d)
       \/ \E d \in Deltas : getGameState(d)
       \/ \E c \in PartialConfigs : updateConfig(c)
       \/ \E n \in MonitorCounts, t \in TimerChoices, f \in FoodChoices : setupGame(n, t, f)
    /\ UNCHANGED <<held, grid, client>>

Spec == Init /\ [][Next]_vars

\* --------------------------------------------------------------------------
\* Rounds in progress
\* --------------------------------------------------------------------------
initServerEngine(m, p) ==
    /\ monitors' = m
    /\ portals' = p
    /\ Called("initServerEngine", "-") /\ stepsRun' = 0
    /\ UNCHANGED <<config, game, now>>

\* The topologies handed to initServerEngine: the generated ring of two
\* monitors; two monitors with one portal on the top edge of monitor "0",
\* above and right of the start column; one monitor whose top-edge portal
\* leads back three cells below the edge of the start column.
RingTopology ==
    [n |-> 2, monitors |-> generateMonitors(2),
     portals |-> generatePortals(generateMonitors(2))]

EdgeTopology ==
    [n |-> 2, monitors |-> generateMonitors(2),
     portals |-> <<[from |-> "0", to |-> "1",
                    fromPos |-> Pos(1050, 0), toPos |-> Pos(100, 540)]>>]

LoopTopology ==
    [n |-> 1, monitors |-> generateMonitors(1),
     portals |-> <<[from |-> "0", to |-> "0",
                    fromPos |-> Pos(1050, 0), toPos |-> Pos(975, 105)]>>]

Topologies == {RingTopology, EdgeTopology, LoopTopology}

Repeat(d, n) == [k \in 1..n |-> d]

\* Direction inputs of rounds in progress, one per tick: straight up to two
\* cells below the top wall; right to two cells before the portal; a loop
\* over both food cells, left two cells before the snake's own body; the
\* same loop continued up the start column.
UpScript == Repeat("up", 16)

RightScript == Repeat("right", 26)

LoopScript == <<"right", "right", "up", "left", "left", "down",
                "right", "right", "up", "left">>

LoopUpScript == <<"right", "right", "up", "left", "left", "down",
                  "left", "up", "right">> \o Repeat("up", 15)

Checkpoints ==
    {[topology |-> RingTopology, script |-> UpScript],
     [topology |-> RingTopology, script |-> RightScript],
     [topology |-> RingTopology, script |-> LoopScript],
     [topology |-> EdgeTopology, script |-> UpScript],
     [topology |-> LoopTopology, script |-> LoopUpScript]}

\* The game states after setDirection(d) and a getGameState at time t
PlayTick(S, d, t) ==
    UNION {{e.g : e \in processTicks(DirectedGame(g, d), t)} : g \in S}

\* The game states after the calls setDirection(script[k]), getGameState,
\* one tick interval apart, the last of them at time t
RECURSIVE PlaySet(_, _, _)
PlaySet(S, script, t) ==
    IF script = <<>> THEN S
    ELSE PlaySet(PlayTick(S, Head(script), t - (Len(script) - 1) * config.tickIntervalMs),
                 Tail(script), t)

\* The states of a round in progress at one of the checkpoints cps:
\* setupGame(n, 60, 1), initServerEngine, startGame and the calls of a
\* script, the clock read 0 at the last of them
PlayFrom(cps) ==
    \E c \in cps :
        LET cfg == [createConfig EXCEPT !.monitorCount = c.topology.n,
                                       !.timerSeconds = 60,
                                       !.foodPerMonitor = 1]
            t0 == -(Len(c.script) * cfg.tickIntervalMs)
        IN  /\ now = 0
            /\ config = cfg
            /\ monitors = c.topology.monitors
            /\ portals = c.topology.portals
            /\ \E picks \in [1..(c.topology.n * cfg.foodPerMonitor) -> RandPoints] :
                  game \in PlaySet({[createInitialGameState(cfg, t0) EXCEPT
                                        !.phase = "running",
                                        !.foods = spawnFoods(c.topology.monitors, cfg, picks)]},
                                   c.script, 0)
            /\ lastOp = "getGameState"
            /\ lastArg = "-"
            /\ prevPhase = "running"
            /\ stepsRun = 1
            /\ held = NoSnapshot
            /\ grid = NoGrid
            /\ client = NoRequests

InitPlay == PlayFrom(Checkpoints)

NextPlay ==
    /\ \/ startGame
       \/ stopGameAction
       \/ resetGame
       \/ \E d \in Directions : setDirection(d)
       \/ \E d \in Deltas : getGameState(d)
       \/ \E c \in Topologies : initServerEngine(c.monitors, c.portals)
    /\ UNCHANGED <<held, grid, client>>

PlaySpec == InitPlay /\ [][NextPlay]_vars

\* --------------------------------------------------------------------------
\* Rounds that teleport the head onto the snake
\* --------------------------------------------------------------------------
\* One monitor whose top-edge portal leads back into the start column, to
\* the cell at height y
LoopBack(y) ==
    [n |-> 1, monitors |-> generateMonitors(1),
     portals |-> <<[from |-> "0", to |-> "0",
                    fromPos |-> Pos(1050, 0), toPos |-> Pos(975, y)]>>]

\* Straight up the start column, or first over both food cells, to two
\* cells before the portal; the portal leads to the cell of the segment of
\* index 1, 2 or 3 of the snake that enters it
BackCheckpoints ==
    {[topology |-> LoopBack(y), script |-> s] :
        y \in {45, 75, 105}, s \in {UpScript, LoopUpScript}}

InitBack == PlayFrom(BackCheckpoints)

NextBack ==
    /\ \/ startGame
       \/ stopGameAction
       \/ resetGame
       \/ \E d \in Directions : setDirection(d)
       \/ \E d \in Deltas : getGameState(d)
    /\ UNCHANGED <<held, grid, client>>

BackSpec == InitBack /\ [][NextBack]_vars

\* --------------------------------------------------------------------------
\* A round polled until it ends
\* --------------------------------------------------------------------------
\* The engine after setupGame(1, 1, 1), startGame and one getGameState call
\* that leaves three tick intervals of the round's second; the clock reads 0
\* when the second is over
InitLive ==
    LET cfg == [createConfig EXCEPT !.monitorCount = 1,
                                   !.timerSeconds = 1,
                                   !.foodPerMonitor = 1]
        t0 == -(cfg.timerSeconds * 1000)
        t1 == -(3 * cfg.tickIntervalMs)
    IN  /\ now = t1
        /\ config = cfg
        /\ monitors = generateMonitors(1)
        /\ portals = generatePortals(generateMonitors(1))
        /\ \E picks \in [1..cfg.foodPerMonitor -> RandPoints] :
              \E e \in processTicks([createInitialGameState(cfg, t0) EXCEPT
                                        !.phase = "running",
                                        !.foods = spawnFoods(generateMonitors(1), cfg, picks)],
                                    t1) :
                 /\ game = e.g
                 /\ stepsRun = e.steps
        /\ lastOp = "getGameState"
        /\ lastArg = "-"
        /\ prevPhase = "running"
        /\ held = NoSnapshot
        /\ grid = NoGrid
        /\ client = NoRequests

\* One poll of the state, some time after the last one
pollState ==
    /\ \E d \in Deltas : getGameState(d)
    /\ UNCHANGED <<held, grid, client>>

\* The calls that begin no new round
NextLive ==
    \/ pollState
    \/ /\ \/ stopGameAction
          \/ \E d \in Directions : setDirection(d)
       /\ UNCHANGED <<held, grid, client>>

\* getGameState keeps being called: the interval of the stream route, or
\* the polling loop of a client, calls it again as long as it can
LiveSpec == InitLive /\ [][NextLive]_vars /\ WF_vars(pollState)

\* --------------------------------------------------------------------------
\* The generated layout and portals of three monitors
TripleTopology ==
    [n |-> 3, monitors |-> generateMonitors(3),
     portals |-> generatePortals(generateMonitors(3))]

\* The ticks of a straight run right from the start to the cell before the
\* portal of monitor "2": 26 to the portal of monitor "0", and 56 from the
\* exit of a portal to the next one
RingTicks == 26 + 56 + 56

\* The engine after setupGame(3, 60, 1) and startGame, RingTicks tick
\* intervals before the clock reads 0
InitRing ==
    LET cfg == [createConfig EXCEPT !.monitorCount = 3,
                                   !.timerSeconds = 60,
                                   !.foodPerMonitor = 1]
        t0 == -(RingTicks * cfg.tickIntervalMs)
    IN  /\ now = t0
        /\ config = cfg
        /\ monitors = TripleTopology.monitors
        /\ portals = TripleTopology.portals
        /\ \E picks \in [1..(3 * cfg.foodPerMonitor) -> RandPoints] :
              game = [createInitialGameState(cfg, t0) EXCEPT
                         !.phase = "running",
                         !.foods = spawnFoods(TripleTopology.monitors, cfg, picks)]
        /\ lastOp = "start"
        /\ lastArg = "-"
        /\ prevPhase = "idle"
        /\ stepsRun = 0
        /\ held = NoSnapshot
        /\ grid = NoGrid
        /\ client = NoRequests

\* The monitor counts given to setupGame on the ring: none, and three again
RingCounts == {0, 3}

\* The state is polled once per tick interval until the clock reads 0, and
\* any call is made from then on
NextRing ==
    /\ \/ /\ now < 0
          /\ getGameState(config.tickIntervalMs)
       \/ /\ now >= 0
          /\ \/ stopGameAction
             \/ resetGame
             \/ \E d \in Directions : setDirection(d)
             \/ \E d \in Deltas : getGameState(d)
             \/ \E n \in RingCounts : setupGame(n, 60, 1)
    /\ UNCHANGED <<held, grid, client>>

RingSpec == InitRing /\ [][NextRing]_vars

\* --------------------------------------------------------------------------
\* Snapshots held by a caller
\* --------------------------------------------------------------------------
\* The call just made assigned new arrays to game.snake and game.foods
ReplacesArrays ==
    \/ lastOp' \in {"reset", "setup"}
    \/ lastOp' = "start" /\ game.phase # "running"

\* { ...state.game } after the call just made: the arrays are shared
TakeSnapshot ==
    [taken |-> TRUE, live |-> TRUE,
     snake |-> game'.snake, foods |-> game'.foods, score |-> game'.score]

\* The held snapshot after the call just made: while its arrays are the
\* engine's own, it shows what unshift, pop, splice and push left in them
SeenThroughHeld ==
    IF held.taken /\ held.live
    THEN IF ReplacesArrays
         THEN [held EXCEPT !.live = FALSE]
         ELSE [held EXCEPT !.snake = game'.snake, !.foods = game'.foods]
    ELSE held

\* The caller removes the last food of the snapshot it holds
\* (snapshot.foods.pop())
mutateSnapshot ==
    /\ held.taken
    /\ held.foods # <<>>
    /\ held' = [held EXCEPT !.foods = SubSeq(@, 1, Len(@) - 1)]
    /\ game' = IF held.live THEN [game EXCEPT !.foods = held'.foods] ELSE game
    /\ Called("mutateSnapshot", "-") /\ stepsRun' = 0
    /\ UNCHANGED <<config, monitors, portals, now>>

\* The engine after setupGame(1, 60, 1)
InitSnap ==
    LET cfg == [createConfig EXCEPT !.monitorCount = 1,
                                   !.timerSeconds = 60,
                                   !.foodPerMonitor = 1]
    IN  /\ now = 0
        /\ config = cfg
        /\ monitors = generateMonitors(1)
        /\ portals = generatePortals(generateMonitors(1))
        /\ game = createInitialGameState(cfg, 0)
        /\ lastOp = "setup"
        /\ lastArg = "-"
        /\ prevPhase = "idle"
        /\ stepsRun = 0
        /\ held = NoSnapshot
        /\ grid = NoGrid
        /\ client = NoRequests

\* The calls of a caller that keeps one of the snapshots getGameState
\* returns
NextSnap ==
    /\ \/ /\ \/ startGame
             \/ stopGameAction
             \/ resetGame
             \/ \E d \in Directions : setDirection(d)
          /\ held' = SeenThroughHeld
       \/ /\ \E d \in Deltas : getGameState(d)
          /\ held' \in IF held.taken THEN {SeenThroughHeld} ELSE {TakeSnapshot, held}
       \/ mutateSnapshot
    /\ UNCHANGED <<grid, client>>

SnapSpec == InitSnap /\ [][NextSnap]_vars

\* --------------------------------------------------------------------------
\* API routes
\* --------------------------------------------------------------------------
\* A request answered with status 400: no engine function is called
Rejected ==
    /\ Called("rejected", "-") /\ stepsRun' = 0
    /\ UNCHANGED <<config, monitors, portals, game, now>>

VALID_DIRECTIONS == {"up", "down", "left", "right"}

\* POST /api/state/input with body {direction}
postInput(direction) ==
    IF direction \in VALID_DIRECTIONS
    THEN setDirection(direction)
    ELSE Rejected

\* v || d for a number field of a request body; an absent field is 0 here
OrDefault(v, d) == IF v = 0 THEN d ELSE v

\* POST /api/state/control with body b; in the setup case the getGameState
\* call that follows setupGame finds the phase idle and changes nothing
postControl(b) ==
    CASE b.action = "setup" ->
            setupGame(OrDefault(b.monitorCount, 6), OrDefault(b.timerSeconds, 120),
                      OrDefault(b.foodPerMonitor, 5))
      [] b.action = "updateConfig" ->
            updateConfig([monitorCount |-> b.monitorCount,
                          timerSeconds |-> b.timerSeconds,
                          foodPerMonitor |-> b.foodPerMonitor])
      [] b.action = "start" -> startGame
      [] b.action = "stop" -> stopGameAction
      [] b.action = "reset" -> resetGame
      [] OTHER -> Rejected

\* Request inputs: a direction string that is no direction; control bodies
\* with an unknown action, with fields left out of a setup (0), and with
\* values inside and outside the documented ranges
InputStrings == VALID_DIRECTIONS \cup {"north"}

SetupBodies ==
    [action : {"setup"}, monitorCount : {0, 2, 10}, timerSeconds : {5, 60},
     foodPerMonitor : {1, 21}]

UpdateBodies ==
    [action : {"updateConfig"}, monitorCount : {2, 10}, timerSeconds : {60},
     foodPerMonitor : {1, 21}]

PlainBodies ==
    [action : {"start", "stop", "reset", "pause"}, monitorCount : {0},
     timerSeconds : {0}, foodPerMonitor : {0}]

ControlBodies == SetupBodies \cup UpdateBodies \cup PlainBodies

NextRoute ==
    /\ \/ \E d \in InputStrings : postInput(d)
       \/ \E b \in ControlBodies : postControl(b)
       \/ \E d \in Deltas : getGameState(d)
    /\ UNCHANGED <<held, grid, client>>

RouteSpec == Init /\ [][NextRoute]_vars

\* --------------------------------------------------------------------------
\* Layouts
\* --------------------------------------------------------------------------
\* The monitor counts given to setupGame: none, and every count of 1..9
LayoutCounts == 0..9

\* setupGame for every monitor count, between rounds that are never started
NextLayout ==
    /\ \/ \E n \in LayoutCounts, t \in TimerChoices, f \in FoodChoices : setupGame(n, t, f)
       \/ stopGameAction
       \/ resetGame
       \/ \E d \in Directions : setDirection(d)
    /\ UNCHANGED <<held, grid, client>>

LayoutSpec == Init /\ [][NextLayout]_vars

\* --------------------------------------------------------------------------
\* Grid conversions
\* --------------------------------------------------------------------------
\* Cell sizes, pixel coordinates and cell indexes given to the conversions
CellSizes == {1, 2, 3, 30, 31}

PixelCoords == {-61, -31, -30, -1, 0, 1, 15, 29, 30, 47}

CellCoords == -2..2

\* The position is replaced by the centre of its cell
callSnapToGrid ==
    /\ LET p == snapToGridCell(grid.x, grid.y, grid.cellSize)
       IN  grid' = [grid EXCEPT !.x = p.x, !.y = p.y]
    /\ Called("snapToGrid", lastOp) /\ stepsRun' = 0
    /\ UNCHANGED <<config, monitors, portals, game, now, held, client>>

\* The cell is replaced by the cell of the position
callToGridCell ==
    /\ LET c == toGridCell(grid.x, grid.y, grid.cellSize)
       IN  grid' = [grid EXCEPT !.gx = c.gx, !.gy = c.gy]
    /\ Called("toGridCell", lastOp) /\ stepsRun' = 0
    /\ UNCHANGED <<config, monitors, portals, game, now, held, client>>

\* The position is replaced by the centre of the cell
callFromGridCell ==
    /\ LET p == fromGridCell(grid.gx, grid.gy, grid.cellSize)
       IN  grid' = [grid EXCEPT !.x = p.x, !.y = p.y]
    /\ Called("fromGridCell", lastOp) /\ stepsRun' = 0
    /\ UNCHANGED <<config, monitors, portals, game, now, held, client>>

\* The engine as constructed, and any arguments for the conversions
InitGrid ==
    /\ now = 0
    /\ config = createConfig
    /\ monitors = generateMonitors(createConfig.monitorCount)
    /\ portals = generatePortals(generateMonitors(createConfig.monitorCount))
    /\ game = createInitialGameState(createConfig, 0)
    /\ lastOp = "init"
    /\ lastArg = "-"
    /\ prevPhase = "idle"
    /\ stepsRun = 0
    /\ held = NoSnapshot
    /\ client = NoRequests
    /\ \E c \in CellSizes, px, py \in PixelCoords, cx, cy \in CellCoords :
          grid = [cellSize |-> c, x |-> 2 * px, y |-> 2 * py, gx |-> cx, gy |-> cy]

NextGrid ==
    \/ callSnapToGrid
    \/ callToGridCell
    \/ callFromGridCell

GridSpec == InitGrid /\ [][NextGrid]_vars

\* --------------------------------------------------------------------------
\* The polling loop of a monitor page
\* --------------------------------------------------------------------------
\* The interval fires: fetchState takes the next request id and sends the
\* request
sendRequest ==
    /\ client.requestId < MaxRequests
    /\ client' = [client EXCEPT !.requestId = @ + 1,
                                !.pending = @ \cup {client.requestId + 1}]
    /\ Called("fetchState", "sent") /\ stepsRun' = 0
    /\ UNCHANGED <<config, monitors, portals, game, now, held, grid>>

\* fetchState that applies every response
receiveResponseAlways(id) ==
    /\ id \in client.pending
    /\ client' = [client EXCEPT !.pending = @ \ {id},
                                !.lastReceivedId = id,
                                !.shown = id]
    /\ Called("fetchState", "applied")
    /\ stepsRun' = 0
    /\ UNCHANGED <<config, monitors, portals, game, now, held, grid>>

\* The response to request id arrives: fetchState returns if a later
\* request's response was received before, and shows the state otherwise
receiveResponse(id) ==
    /\ id \in client.pending
    /\ client' = IF id < client.lastReceivedId
                 THEN [client EXCEPT !.pending = @ \ {id}]
                 ELSE [client EXCEPT !.pending = @ \ {id},
                                     !.lastReceivedId = id,
                                     !.shown = id]
    /\ Called("fetchState", IF id < client.lastReceivedId THEN "skipped" ELSE "applied")
    /\ stepsRun' = 0
    /\ UNCHANGED <<config, monitors, portals, game, now, held, grid>>

\* Request id fails: the catch block of fetchState does nothing
failRequest(id) ==
    /\ id \in client.pending
    /\ client' = [client EXCEPT !.pending = @ \ {id}]
    /\ Called("fetchState", "failed") /\ stepsRun' = 0
    /\ UNCHANGED <<config, monitors, portals, game, now, held, grid>>

\* Requests are in flight together and end in any order
NextClient ==
    \/ sendRequest
    \/ \E id \in 1..MaxRequests : receiveResponse(id)
    \/ \E id \in 1..MaxRequests : failRequest(id)

ClientSpec == Init /\ [][NextClient]_vars

\* --------------------------------------------------------------------------
\* Properties
\* --------------------------------------------------------------------------
\* The direction 180 degrees from d
Reverse(d) ==
    IF d = "up" THEN "down"
    ELSE IF d = "down" THEN "up"
    ELSE IF d = "left" THEN "right" ELSE "left"

\* The two-segment snake at the centre of monitor "0" for 30-pixel cells
FreshSnake == <<[x |-> 975, y |-> 555], [x |-> 945, y |-> 555]>>

\* C1: a getGameState, setDirection or stopGameAction call on an ended game
\* leaves the phase ended.
C1_EndedStaysEnded ==
    [][(game.phase = "ended" /\ lastOp' \in {"getGameState", "setDirection", "stop"})
          => game'.phase = "ended"]_vars

C1_Witness ==
    /\ lastOp = "getGameState"
    /\ prevPhase = "ended"
    /\ game.phase = "ended"
    /\ game.timeLeftMs > 0

\* C2: nextDir is never the reverse of dir, and the direction a getGameState
\* call commits is never the reverse of the direction committed before it.
C2_NoReversal ==
    /\ [](game.nextDir # Reverse(game.dir))
    /\ [][lastOp' = "getGameState" => game'.dir # Reverse(game.dir)]_vars

C2_Witness ==
    /\ lastOp = "getGameState"
    /\ stepsRun > 0
    /\ game.dir = "left"

\* C3: on a running game setDirection(e) leaves nextDir unchanged when e is
\* the reverse of dir and sets nextDir to e otherwise.
C3_SetDirection ==
    [][(lastOp' = "setDirection" /\ game.phase = "running")
          => IF lastArg' = Reverse(game.dir)
             THEN game'.nextDir = game.nextDir
             ELSE game'.nextDir = lastArg']_vars

C3_Witness ==
    /\ lastOp = "setDirection"
    /\ prevPhase = "running"
    /\ game.dir = "up"
    /\ lastArg = "down"
    /\ game.nextDir = "left"

\* C4: one getGameState call invokes step at most five times and advances
\* the tick counter by at most five.
C4_TickCap ==
    /\ [](stepsRun <= 5)
    /\ [][lastOp' = "getGameState" => game'.tick - game.tick <= 5]_vars

C4_Witness ==
    /\ lastOp = "getGameState"
    /\ now - 100 * config.tickIntervalMs >= 0
    /\ stepsRun = 5
    /\ game.tick >= 5

\* C5: startGame on a running game changes no field of the game state.
C5_StartWhileRunning ==
    [][(lastOp' = "start" /\ game.phase = "running")
          => /\ game' = game
             /\ UNCHANGED <<config, monitors, portals>>]_vars

C5_Witness ==
    /\ lastOp = "start"
    /\ prevPhase = "running"
    /\ game.phase = "running"
    /\ game.tick > 0
    /\ game.score > 0

\* C6: startGame on an idle or ended game leaves a new round: running,
\* score 0, tick 0, heading right, the fresh two-segment snake, the full
\* timer, and foodPerMonitor new foods on each monitor.
C6_StartNewRound ==
    [][(lastOp' = "start" /\ game.phase # "running")
          => /\ game'.phase = "running"
             /\ game'.score = 0
             /\ game'.tick = 0
             /\ game'.dir = "right"
             /\ game'.nextDir = "right"
             /\ game'.snake = FreshSnake
             /\ game'.activeMonitorId = "0"
             /\ game'.timeLeftMs = config.timerSeconds * 1000
             /\ game'.totalTimeMs = config.timerSeconds * 1000
             /\ Len(game'.foods) = Len(monitors) * config.foodPerMonitor
             /\ \A k \in 1..Len(monitors) :
                   Cardinality({i \in 1..Len(game'.foods) :
                                   /\ game'.foods[i].monitorId = monitors[k].id
                                   /\ InMonitor(monitors[k], game'.foods[i])})
                     = config.foodPerMonitor
             /\ UNCHANGED <<config, monitors, portals>>]_vars

C6_Witness ==
    /\ lastOp = "start"
    /\ prevPhase = "ended"
    /\ game.phase = "running"
    /\ Len(game.foods) = 2

\* C7: stopGameAction sets the phase to ended from any phase and leaves the
\* snake, the foods and the score as they were.
C7_StopFreezes ==
    [][lastOp' = "stop"
          => /\ game'.phase = "ended"
             /\ game'.snake = game.snake
             /\ game'.foods = game.foods
             /\ game'.score = game.score]_vars

C7_Witness ==
    /\ lastOp = "stop"
    /\ prevPhase = "running"
    /\ game.phase = "ended"
    /\ Len(game.foods) > 0
    /\ game.score > 0
    /\ Len(game.snake) > 2

\* C8: resetGame leaves an idle game with no food, score 0, tick 0, the
\* fresh snake and the full timer, and leaves config, monitors and portals
\* unchanged.
C8_Reset ==
    [][lastOp' = "reset"
          => /\ game'.phase = "idle"
             /\ game'.foods = <<>>
             /\ game'.score = 0
             /\ game'.tick = 0
             /\ game'.snake = FreshSnake
             /\ game'.timeLeftMs = config.timerSeconds * 1000
             /\ UNCHANGED <<config, monitors, portals>>]_vars

C8_Witness ==
    /\ lastOp = "reset"
    /\ prevPhase = "running"
    /\ game.phase = "idle"
    /\ config.timerSeconds = 60

\* C9: setupGame(n, t, f) in any phase sets the config to (n, t, f), the
\* monitors to the n-monitor layout, the portals to its ring, and leaves an
\* idle game with score 0, no food and the fresh snake.
C9_Setup ==
    [][\A n \in MonitorCounts, t \in TimerChoices, f \in FoodChoices :
          setupGame(n, t, f)
            => /\ config'.monitorCount = n
               /\ config'.timerSeconds = t
               /\ config'.foodPerMonitor = f
               /\ Len(monitors') = n
               /\ \A k \in 1..n :
                     /\ monitors'[k].id = IdStr[k]
                     /\ monitors'[k].row * CeilSqrt(n) + monitors'[k].col = k - 1
                     /\ monitors'[k].col < CeilSqrt(n)
               /\ Len(portals') = n
               /\ \A k \in 1..n :
                     /\ portals'[k].from = IdStr[k]
                     /\ portals'[k].to = IdStr[(k % n) + 1]
               /\ game'.phase = "idle"
               /\ game'.score = 0
               /\ game'.tick = 0
               /\ game'.foods = <<>>
               /\ game'.snake = FreshSnake
               /\ game'.timeLeftMs = t * 1000]_vars

C9_Witness ==
    /\ lastOp = "setup"
    /\ prevPhase = "running"
    /\ game.phase = "idle"
    /\ config.monitorCount = 2

\* C10: a call other than getGameState leaves the snake, the tick counter
\* and timeLeftMs as they were, unless it is a start, reset or setup, which
\* leaves the fresh snake, tick 0 and the full timer.
C10_OnlyGetAdvances ==
    [][(lastOp' # "getGameState")
          => \/ /\ game'.snake = game.snake
                /\ game'.tick = game.tick
                /\ game'.timeLeftMs = game.timeLeftMs
             \/ /\ lastOp' \in {"start", "reset", "setup"}
                /\ game'.snake = FreshSnake
                /\ game'.tick = 0
                /\ game'.timeLeftMs = config'.timerSeconds * 1000]_vars

C10_Witness ==
    /\ lastOp = "setDirection"
    /\ prevPhase = "running"
    /\ game.phase = "running"
    /\ game.tick > 0
    /\ now > game.lastTickTime

\* The displacement of one move in direction d on a grid of cell pixels
Offset(d, cell) ==
    CASE d = "up" -> Pos(0, -cell)
      [] d = "down" -> Pos(0, cell)
      [] d = "left" -> Pos(-cell, 0)
      [] d = "right" -> Pos(cell, 0)

\* The candidate head of the next step of game state g, in the coordinates
\* of monitor number cm
LocalCandidate(g, cm) ==
    LET o == Offset(g.nextDir, config.gridCellSize)
    IN  Pos(g.snake[1].x + o.x - monitors[cm].col * MONITOR_W,
            g.snake[1].y + o.y - monitors[cm].row * MONITOR_H)

\* The head of g lies on no monitor
Lost(g) == findMonitor(monitors, g.snake[1]) = 0

\* The portal the candidate head of g is within PORTAL_RADIUS of, 0 if none
PortalAhead(g) ==
    LET cm == findMonitor(monitors, g.snake[1])
    IN  IF cm = 0 THEN 0
        ELSE PortalHit(monitors[cm].id, LocalCandidate(g, cm).x, LocalCandidate(g, cm).y)

\* The candidate head of g is less than one cell from an edge of the monitor
WallAhead(g) ==
    LET cm == findMonitor(monitors, g.snake[1])
        cell == config.gridCellSize
    IN  /\ cm # 0
        /\ \/ LocalCandidate(g, cm).x < cell
           \/ LocalCandidate(g, cm).x > MONITOR_W - cell
           \/ LocalCandidate(g, cm).y < cell
           \/ LocalCandidate(g, cm).y > MONITOR_H - cell

\* C11: setDirection changes neither dir nor the snake; a getGameState call
\* leaves the buffer as it was and commits dir = nextDir exactly when it runs
\* a step; the one step of a call that completes a move, from a head on a
\* monitor and without a portal, puts the head one cell from the old head
\* in the buffered direction;
\* within a round no other call changes dir (a start, reset or setup begins
\* a new round heading right).
C11_Buffered ==
    [][/\ lastOp' = "setDirection"
            => /\ game'.dir = game.dir
               /\ game'.snake = game.snake
       /\ lastOp' = "getGameState"
            => /\ game'.nextDir = game.nextDir
               /\ game'.dir = IF stepsRun' > 0 THEN game.nextDir ELSE game.dir
               /\ (/\ stepsRun' = 1 /\ game'.tick = game.tick + 1
                   /\ ~Lost(game) /\ PortalAhead(game) = 0)
                     => LET o == Offset(game.nextDir, config.gridCellSize)
                        IN  game'.snake[1] =
                              Pos(game.snake[1].x + o.x, game.snake[1].y + o.y)
       /\ (lastOp' # "getGameState" /\ game'.dir # game.dir)
            => /\ lastOp' \in {"start", "reset", "setup"}
               /\ game'.dir = "right"
               /\ game'.nextDir = "right"]_vars

C11_Witness ==
    /\ lastOp = "getGameState"
    /\ stepsRun = 1
    /\ game.phase = "running"
    /\ game.dir = "up"
    /\ game.snake[1] = Pos(975, 525)

\* C12: setDirection(e) on an idle or ended game, e not the reverse of dir,
\* sets nextDir to e and changes nothing else of the game state.
C12_BufferedOutsideRunning ==
    [][(/\ lastOp' = "setDirection"
        /\ game.phase # "running"
        /\ lastArg' # Reverse(game.dir))
          => game' = [game EXCEPT !.nextDir = lastArg']]_vars

\* The indices of the foods lying in the cell of position h
FoodsOn(foods, h) ==
    {i \in 1..Len(foods) : foods[i].x = h.x /\ foods[i].y = h.y}

\* C13: when the one step of a getGameState call moves the head onto a cell
\* holding a food, the score grows by 10, the snake grows by the new head
\* with its tail kept, one food of that cell is removed, and one new food of
\* the same monitor id is appended (none if that monitor no longer exists);
\* when it moves the head onto a cell with no food, the score, the length
\* and the foods are unchanged.
C13_Eat ==
    [][(lastOp' = "getGameState" /\ stepsRun' = 1 /\ game'.snake # game.snake)
          => LET h == game'.snake[1]
                 n == Len(game.foods)
             IN  IF FoodsOn(game.foods, h) # {}
                 THEN /\ game'.score = game.score + 10
                      /\ game'.snake = <<h>> \o game.snake
                      /\ \E i \in FoodsOn(game.foods, h) :
                            \/ /\ Len(game'.foods) = n
                               /\ SubSeq(game'.foods, 1, n - 1) = RemoveAt(game.foods, i)
                               /\ game'.foods[n].monitorId = game.foods[i].monitorId
                            \/ /\ game'.foods = RemoveAt(game.foods, i)
                               /\ IndexOfId(monitors, game.foods[i].monitorId) = 0
                 ELSE /\ game'.score = game.score
                      /\ Len(game'.snake) = Len(game.snake)
                      /\ game'.foods = game.foods]_vars

C13_Witness ==
    /\ lastOp = "getGameState"
    /\ stepsRun = 1
    /\ game.score = 10
    /\ Len(game.snake) = 3
    /\ game.snake[1] = Pos(1035, 555)
    /\ Len(game.foods) = 2

\* No two segments of the snake lie in the same cell
NoOverlap(snake) ==
    \A i, j \in 1..Len(snake) : i # j => snake[i] # snake[j]

\* C14: when the candidate head of the one step of a getGameState call is a
\* wall position of the head's monitor and within reach of no portal, the
\* call leaves the phase ended and the snake as it was before the call, with
\* no two segments in one cell.
C14_WallDeath ==
    [][(/\ lastOp' = "getGameState"
        /\ stepsRun' = 1
        /\ ~Lost(game)
        /\ WallAhead(game)
        /\ PortalAhead(game) = 0)
          => /\ game'.phase = "ended"
             /\ game'.snake = game.snake
             /\ NoOverlap(game'.snake)]_vars

C14_Witness ==
    /\ lastOp = "getGameState"
    /\ prevPhase = "running"
    /\ stepsRun = 1
    /\ game.phase = "ended"
    /\ game.dir = "up"
    /\ game.snake = <<Pos(975, 45), Pos(975, 75)>>
    /\ game.tick = 17
    /\ portals = RingTopology.portals

\* The grid-snapped exit point of portal number pk
PortalExit(pk) ==
    snapToGrid(monitorOrigin(monitors, portals[pk].to).x + portals[pk].toPos.x,
               monitorOrigin(monitors, portals[pk].to).y + portals[pk].toPos.y,
               config.gridCellSize)

\* C15 as stated: when the candidate head of the one step of a getGameState
\* call is both a wall position and within PORTAL_RADIUS of a portal leaving
\* the head's monitor, the new head is the portal's grid-snapped exit,
\* activeMonitorId is its destination and the phase stays running.
C15_PortalNeverEnds ==
    [][(/\ lastOp' = "getGameState"
        /\ stepsRun' = 1
        /\ ~Lost(game)
        /\ WallAhead(game)
        /\ PortalAhead(game) # 0)
          => /\ game'.snake[1] = PortalExit(PortalAhead(game))
             /\ game'.activeMonitorId = portals[PortalAhead(game)].to
             /\ game'.phase = "running"]_vars

\* C15, amended: in that case the new head is the portal's grid-snapped
\* exit and activeMonitorId is its destination, the wall check is skipped,
\* and the phase stays running unless the exit cell holds a segment of
\* index 3 or more of the moved snake, which ends the game by self collision.
C15_PortalPrecedence ==
    [][(/\ lastOp' = "getGameState"
        /\ stepsRun' = 1
        /\ ~Lost(game)
        /\ WallAhead(game)
        /\ PortalAhead(game) # 0)
          => /\ game'.snake[1] = PortalExit(PortalAhead(game))
             /\ game'.activeMonitorId = portals[PortalAhead(game)].to
             /\ game'.phase =
                  IF \E i \in 4..Len(game'.snake) : game'.snake[i] = game'.snake[1]
                  THEN "ended" ELSE "running"]_vars

C15_Witness ==
    /\ lastOp = "getGameState"
    /\ stepsRun = 1
    /\ portals = EdgeTopology.portals
    /\ game.phase = "running"
    /\ game.dir = "up"
    /\ game.activeMonitorId = "1"
    /\ game.snake = <<Pos(MONITOR_W + 105, 555), Pos(975, 45)>>

\* C16: with the generated portals, a getGameState call whose one step ends
\* the game by self collision returns the snake as it was before the call,
\* with no two segments in the same cell.
C16_NoOverlapReturned ==
    [][(/\ lastOp' = "getGameState"
        /\ stepsRun' = 1
        /\ portals = generatePortals(monitors)
        /\ game'.phase = "ended"
        /\ ~(~Lost(game) /\ WallAhead(game) /\ PortalAhead(game) = 0))
          => /\ game'.snake = game.snake
             /\ NoOverlap(game'.snake)]_vars

\* C17: the snake has at least two segments in every reachable state.
C17_AtLeastTwo == Len(game.snake) >= 2

\* A state left by the recovery step of a head that was on no monitor: the
\* head at the centre of monitor "0", the old head beyond the only monitor
C17_Witness ==
    /\ lastOp = "getGameState"
    /\ stepsRun = 1
    /\ Len(monitors) = 1
    /\ game.snake[1] = Pos(975, 555)
    /\ game.snake[2].x > MONITOR_W
    /\ game.phase = "running"

\* Position p is the centre of a cell: cellIndex * cell + cell / 2 on both axes
Aligned(p, cell) ==
    /\ (p.x - cell \div 2) % cell = 0
    /\ (p.y - cell \div 2) % cell = 0

\* C18: every snake segment and every food is grid-aligned in every
\* reachable state.
C18_GridAligned ==
    /\ \A i \in 1..Len(game.snake) : Aligned(game.snake[i], config.gridCellSize)
    /\ \A i \in 1..Len(game.foods) : Aligned(game.foods[i], config.gridCellSize)

\* A state after a portal teleport in a round in which a food was respawned
C18_Witness ==
    /\ lastOp = "getGameState"
    /\ stepsRun = 1
    /\ game.activeMonitorId = "1"
    /\ game.snake[1] = Pos(MONITOR_W + 105, 555)
    /\ game.snake[2] = Pos(1755, 555)
    /\ game.score = 10
    /\ Len(game.foods) = 2

\* C19: the score is never negative; a getGameState call adds 10 for each
\* segment the snake grew by, at most one per step it ran, so the score
\* never decreases while the phase stays running; any other call leaves the
\* score as it was, unless it is a start, reset or setup, which leaves 0.
C19_Score ==
    /\ [](game.score >= 0)
    /\ [][/\ lastOp' = "getGameState"
               => /\ game'.score - game.score
                       = 10 * (Len(game'.snake) - Len(game.snake))
                  /\ game'.score >= game.score
                  /\ game'.score - game.score <= 10 * stepsRun'
          /\ lastOp' # "getGameState"
               => \/ game'.score = game.score
                  \/ /\ lastOp' \in {"start", "reset", "setup"}
                     /\ game'.score = 0
          /\ (game.phase = "running" /\ game'.phase = "running")
               => game'.score >= game.score]_vars

C19_Witness ==
    /\ lastOp = "getGameState"
    /\ prevPhase = "running"
    /\ stepsRun = 5
    /\ game.tick = 5
    /\ game.score = 10
    /\ Len(game.snake) = 3

\* C20: a call that finds and leaves the phase running never increases
\* timeLeftMs, and the getGameState call on a running game that brings
\* timeLeftMs to 0 or below leaves the phase ended and runs no step: the
\* snake, the score, the foods, the tick counter and dir are as before.
C20_Timer ==
    [][/\ (game.phase = "running" /\ game'.phase = "running")
            => game'.timeLeftMs <= game.timeLeftMs
       /\ (/\ lastOp' = "getGameState"
           /\ game.phase = "running"
           /\ game'.timeLeftMs <= 0)
            => /\ game'.phase = "ended"
               /\ stepsRun' = 0
               /\ game'.snake = game.snake
               /\ game'.score = game.score
               /\ game'.foods = game.foods
               /\ game'.tick = game.tick
               /\ game'.dir = game.dir]_vars

C20_Witness ==
    /\ lastOp = "getGameState"
    /\ prevPhase = "running"
    /\ game.phase = "ended"
    /\ game.timeLeftMs <= 0
    /\ game.tick > 0
    /\ game.nextDir # game.dir

\* C21: no engine call changes the snake or the foods of a snapshot a caller
\* holds, and a caller that changes its snapshot leaves the game state of
\* the engine as it was.
C21_SnapshotIndependent ==
    [][/\ (held.taken /\ lastOp' # "mutateSnapshot")
            => /\ held'.snake = held.snake
               /\ held'.foods = held.foods
       /\ lastOp' = "mutateSnapshot" => game' = game]_vars

\* A configuration field given in a request body lies outside its range
OutOfRange(b) ==
    \/ b.monitorCount # 0 /\ b.monitorCount \notin 1..9
    \/ b.timerSeconds # 0 /\ b.timerSeconds \notin 30..600
    \/ b.foodPerMonitor # 0 /\ b.foodPerMonitor \notin 1..20

\* C23: a request with an invalid direction string, an unknown control
\* action or an out-of-range configuration leaves config, monitors, portals
\* and the game state unchanged.
C23_InvalidRejected ==
    [][/\ \A d \in InputStrings \ VALID_DIRECTIONS :
             postInput(d) => UNCHANGED <<config, monitors, portals, game>>
       /\ \A b \in ControlBodies :
             (/\ postControl(b)
              /\ \/ b.action \notin {"setup", "updateConfig", "start", "stop", "reset"}
                 \/ b.action \in {"setup", "updateConfig"} /\ OutOfRange(b))
               => UNCHANGED <<config, monitors, portals, game>>]_vars

\* C24: the portals of two or more monitors are one per monitor, portal i
\* from monitor i to monitor (i + 1) mod N, so that every monitor is the
\* source of exactly one portal and the destination of exactly one; one
\* monitor or none has no portals.
C24_PortalRing ==
    lastOp = "setup" =>
        LET n == Len(monitors)
        IN  IF n >= 2
            THEN /\ Len(portals) = n
                 /\ \A k \in 1..n :
                       /\ portals[k].from = monitors[k].id
                       /\ portals[k].to = monitors[(k % n) + 1].id
                       /\ Cardinality({j \in 1..n : portals[j].from = monitors[k].id}) = 1
                       /\ Cardinality({j \in 1..n : portals[j].to = monitors[k].id}) = 1
            ELSE portals = <<>>

\* The origin of monitor m in world coordinates
OriginOf(m) == Pos(m.col * MONITOR_W, m.row * MONITOR_H)

\* C27: the monitors setupGame leaves for a count of 1..9 are count
\* monitors with ids "0".."count-1", monitor i at row floor(i / cols) and
\* column i mod cols for the least cols whose square reaches the count; no
\* two share a (row, col) pair, and the first and the last point of each
\* monitor's rectangle lie in that monitor and in no other.
C27_RowMajorLayout ==
    (lastOp = "setup" /\ Len(monitors) \in 1..9) =>
        LET n == Len(monitors)
            cols == CHOOSE c \in 1..n : c * c >= n /\ (c - 1) * (c - 1) < n
        IN  /\ n = config.monitorCount
            /\ \A k \in 1..n :
                  /\ monitors[k].id = ToString(k - 1)
                  /\ monitors[k].row * cols + monitors[k].col = k - 1
                  /\ monitors[k].col \in 0..(cols - 1)
                  /\ monitors[k].row >= 0
            /\ \A j, k \in 1..n :
                  (j # k) =>
                      /\ <<monitors[j].row, monitors[j].col>>
                           # <<monitors[k].row, monitors[k].col>>
                      /\ ~InMonitor(monitors[j], OriginOf(monitors[k]))
                      /\ ~InMonitor(monitors[j],
                                    Pos(OriginOf(monitors[k]).x + MONITOR_W - 1,
                                        OriginOf(monitors[k]).y + MONITOR_H - 1))
            /\ \A k \in 1..n :
                  /\ findMonitor(monitors, OriginOf(monitors[k])) = k
                  /\ findMonitor(monitors, Pos(OriginOf(monitors[k]).x + MONITOR_W - 1,
                                               OriginOf(monitors[k]).y + MONITOR_H - 1)) = k

C27_Witness ==
    /\ lastOp = "setup"
    /\ Len(monitors) = 7
    /\ monitors[7] = [id |-> "6", row |-> 2, col |-> 0]
    /\ monitors[3] = [id |-> "2", row |-> 0, col |-> 2]

\* C25: when a getGameState call on a running round changes
\* activeMonitorId, it changes it from monitor i to monitor (i + 1) mod N.
C25_RingForward ==
    [][(/\ lastOp' = "getGameState"
        /\ game.phase = "running"
        /\ game'.activeMonitorId # game.activeMonitorId)
          => \E i \in 1..Len(monitors) :
                /\ monitors[i].id = game.activeMonitorId
                /\ game'.activeMonitorId = monitors[(i % Len(monitors)) + 1].id]_vars

\* The head has come from monitor "2" back to monitor "0"
C25_Witness ==
    /\ lastOp = "getGameState"
    /\ Len(monitors) = 3
    /\ game.phase = "running"
    /\ game.activeMonitorId = "0"
    /\ game.snake[1] = Pos(105, 555)
    /\ game.snake[2] = Pos(1755, MONITOR_H + 555)


\* The call just made begins a round or puts the game back to its initial
\* state: setupGame, resetGame, or startGame on a game that was not running
BeginsRound ==
    \/ lastOp' \in {"setup", "reset"}
    \/ lastOp' = "start" /\ game.phase # "running"

\* C26 (as stated): updateConfig leaves the game state, the monitors and the
\* portals as they are, and the timer of the configuration reaches the game
\* only at a setup or a reset.
C26_OnlySetupOrReset ==
    [][/\ lastOp' = "updateConfig"
            => (game' = game /\ monitors' = monitors /\ portals' = portals)
       /\ game'.totalTimeMs # game.totalTimeMs
            => lastOp' \in {"setup", "reset"}]_vars

\* C26 (amended): updateConfig leaves the game state, the monitors and the
\* portals as they are; the timer of the configuration reaches the game only
\* when a setup, a reset or the start of the next round writes it there.
C26_NextRound ==
    [][/\ lastOp' = "updateConfig"
            => (game' = game /\ monitors' = monitors /\ portals' = portals)
       /\ game'.totalTimeMs # game.totalTimeMs => BeginsRound
       /\ BeginsRound => game'.totalTimeMs = config'.timerSeconds * 1000]_vars

C26_Witness ==
    /\ lastOp = "updateConfig"
    /\ game.phase = "running"
    /\ game.totalTimeMs # config.timerSeconds * 1000


\* C28: snapping a snapped position changes nothing, for negative
\* coordinates and odd cell sizes too, and the cell of the centre of a cell
\* is that cell; for an even cell size and whole pixels the engine's
\* snapToGrid is the same function.
C28_GridIdempotent ==
    /\ [](grid.cellSize % 2 = 0 /\ grid.x % 2 = 0 /\ grid.y % 2 = 0
            => LET s == snapToGrid(grid.x \div 2, grid.y \div 2, grid.cellSize)
               IN  /\ snapToGridCell(grid.x, grid.y, grid.cellSize) = Pos(2 * s.x, 2 * s.y)
                   /\ snapToGrid(s.x, s.y, grid.cellSize) = s)
    /\ [][/\ (lastOp' = "snapToGrid" /\ lastOp = "snapToGrid")
               => (grid'.x = grid.x /\ grid'.y = grid.y)
          /\ (lastOp' = "toGridCell" /\ lastOp = "fromGridCell")
               => (grid'.gx = grid.gx /\ grid'.gy = grid.gy)]_vars

C28_Witness ==
    /\ lastOp = "snapToGrid" /\ lastArg = "snapToGrid"
    /\ grid.x < 0 /\ grid.y > 0
    /\ grid.cellSize = 31


\* C29: a getGameState call on a running round that stays running subtracts
\* from timeLeftMs the time passed since the call before it (the clock only
\* advances at getGameState, so that time is now' - now), and so every
\* millisecond once.
C29_DeductedOnce ==
    [][(/\ lastOp' = "getGameState"
        /\ game.phase = "running" /\ game'.phase = "running")
          => game.timeLeftMs - game'.timeLeftMs = now' - now]_vars

\* C30: a getGameState call on a running round owed at most five ticks
\* leaves owed the time it did not consume in whole ticks: the time since
\* lastTickTime shrinks by one tick interval per step run.
C30_RemainderCarried ==
    [][(/\ lastOp' = "getGameState"
        /\ game.phase = "running" /\ game'.phase = "running"
        /\ now' - game.lastTickTime <= 5 * config.tickIntervalMs)
          => now' - game'.lastTickTime
               = (now' - game.lastTickTime) - stepsRun' * config.tickIntervalMs]_vars


\* C31: a getGameState call on a game that is not running changes no field
\* of the game state; a call whose batch ends the round by a step made
\* stepsRun' step calls, all but the last of them completed (tick), grew the
\* snake by one segment per 10 points scored, and leaves the snake where the
\* fatal step found it: before the wall, or with the head on its own body.
C31_NoOpUnlessRunning ==
    [][/\ (lastOp' = "getGameState" /\ game.phase # "running") => game' = game
       /\ (/\ lastOp' = "getGameState"
           /\ game.phase = "running" /\ game'.phase # "running"
           /\ stepsRun' >= 1)
            => /\ game'.tick = game.tick + stepsRun' - 1
               /\ game'.score - game.score = 10 * (Len(game'.snake) - Len(game.snake))
               /\ \/ ~Lost(game') /\ WallAhead(game') /\ PortalAhead(game') = 0
                  \/ SelfHit(game'.snake, game'.snake[1], config.gridCellSize)]_vars

\* A batch of five owed steps that the wall ended at its second step
C31_Witness ==
    /\ lastOp = "getGameState"
    /\ prevPhase = "running"
    /\ now > 5 * config.tickIntervalMs
    /\ stepsRun = 2
    /\ game.phase = "ended"
    /\ game.timeLeftMs > 0
    /\ game.snake[1] = Pos(975, 45)


\* Position p is within 1.5 * PORTAL_RADIUS of an endpoint, on monitor id,
\* of a portal leaving or entering that monitor
NearPortal(p, id) ==
    \E k \in 1..Len(portals) :
        LET o == monitorOrigin(monitors, id)
            Near(e) == 4 * ((p.x - o.x - e.x) * (p.x - o.x - e.x)
                              + (p.y - o.y - e.y) * (p.y - o.y - e.y))
                         < 9 * PORTAL_RADIUS * PORTAL_RADIUS
        IN  \/ portals[k].from = id /\ Near(portals[k].fromPos)
            \/ portals[k].to = id /\ Near(portals[k].toPos)

\* C32: every food lies in a cell that holds no snake segment and no other
\* food, and not within 1.5 * PORTAL_RADIUS of a portal endpoint of its
\* monitor.
C32_FoodOnFreeCell ==
    \A i \in 1..Len(game.foods) :
        /\ \A j \in 1..Len(game.snake) :
              Pos(game.foods[i].x, game.foods[i].y) # game.snake[j]
        /\ \A k \in 1..Len(game.foods) :
              k # i => Pos(game.foods[k].x, game.foods[k].y)
                         # Pos(game.foods[i].x, game.foods[i].y)
        /\ ~NearPortal(game.foods[i], game.foods[i].monitorId)


\* Pixel positions p and q lie in the same grid cell
SameCell(p, q, cell) ==
    toGridCell(2 * p.x, 2 * p.y, cell) = toGridCell(2 * q.x, 2 * q.y, cell)

C34_SelfCollisionFromThree ==
    [][(/\ lastOp' = "getGameState"
        /\ stepsRun' = 1
        /\ ~(~Lost(game) /\ WallAhead(game) /\ PortalAhead(game) = 0))
          => /\ game'.phase = "ended"
                  <=> \E i \in 4..Len(game'.snake) : game'.snake[i] = game'.snake[1]
             /\ game'.phase = "running"
                  <=> \A i \in 4..Len(game'.snake) : game'.snake[i] # game'.snake[1]]_vars

\* The head teleported onto the segment of index 2 of a snake of four
\* segments, the round still running
C34_Witness ==
    /\ lastOp = "getGameState"
    /\ stepsRun = 1
    /\ game.phase = "running"
    /\ Len(game.snake) = 4
    /\ game.snake[1] = Pos(975, 75)
    /\ game.snake[3] = Pos(975, 75)
    /\ game.snake[4] # game.snake[1]


\* The candidate head of g is within half a cell of an edge of the head's
\* monitor
EdgeAhead(g) ==
    LET cm == findMonitor(monitors, g.snake[1])
        cell == config.gridCellSize
    IN  /\ cm # 0
        /\ \/ 2 * LocalCandidate(g, cm).x < cell
           \/ 2 * LocalCandidate(g, cm).x > 2 * MONITOR_W - cell
           \/ 2 * LocalCandidate(g, cm).y < cell
           \/ 2 * LocalCandidate(g, cm).y > 2 * MONITOR_H - cell

\* C35: the one step of a getGameState call, from a head on a monitor and
\* with no portal in reach, is ended by the wall exactly when its candidate
\* head is within half a cell of an edge; otherwise the head moves to the
\* candidate, the outermost cell of the monitor included.
C35_WallWithinHalfCell ==
    [][(/\ lastOp' = "getGameState"
        /\ stepsRun' = 1
        /\ ~Lost(game)
        /\ PortalAhead(game) = 0)
          => IF EdgeAhead(game)
             THEN game'.phase = "ended" /\ game'.snake = game.snake
             ELSE game'.snake[1]
                    = Pos(game.snake[1].x + Offset(game.nextDir, config.gridCellSize).x,
                          game.snake[1].y + Offset(game.nextDir, config.gridCellSize).y)]_vars


\* C36: the one step of a getGameState call that finds the head on no
\* monitor leaves the head at the centre of monitor "0", activeMonitorId
\* "0" and the phase running.
C36_DesyncRecovery ==
    [][(lastOp' = "getGameState" /\ stepsRun' = 1 /\ Lost(game))
          => /\ game'.snake[1]
                  = snapToGrid(MONITOR_W \div 2, MONITOR_H \div 2, config.gridCellSize)
             /\ game'.activeMonitorId = "0"
             /\ game'.phase = "running"]_vars


\* The numbers of the monitors whose half-open rectangle holds position p
MonitorsOf(p) ==
    {k \in 1..Len(monitors) :
        /\ p.x >= monitors[k].col * MONITOR_W
        /\ p.x < monitors[k].col * MONITOR_W + MONITOR_W
        /\ p.y >= monitors[k].row * MONITOR_H
        /\ p.y < monitors[k].row * MONITOR_H + MONITOR_H}

\* The head lies on exactly one monitor, the active one
HeadOnActiveMonitor ==
    /\ Cardinality(MonitorsOf(game.snake[1])) = 1
    /\ \A k \in MonitorsOf(game.snake[1]) : monitors[k].id = game.activeMonitorId

C38_RoundEnds == (game.phase = "running") ~> (game.phase = "ended")

\* A round ended by its timer, in a call that ran no step
C38_Witness ==
    /\ lastOp = "getGameState"
    /\ prevPhase = "running"
    /\ game.phase = "ended"
    /\ game.timeLeftMs <= 0
    /\ game.dir = "up"


\* C39 (as stated): in every state the monitor list has config.monitorCount
\* entries and the portals are the ring generated from the monitor list.
C39_LayoutMatchesConfig ==
    /\ Len(monitors) = config.monitorCount
    /\ portals = generatePortals(monitors)

\* C39 (amended): in every state the portals are the ring generated from
\* the monitor list; only setupGame changes the monitor list, and leaves it
\* with config.monitorCount entries; only updateConfig makes the two differ.
C39_LayoutFromSetup ==
    /\ [](portals = generatePortals(monitors))
    /\ [][/\ monitors' # monitors => lastOp' = "setup"
          /\ lastOp' = "setup" => Len(monitors') = config'.monitorCount
          /\ (Len(monitors) = config.monitorCount /\ Len(monitors') # config'.monitorCount)
               => lastOp' = "updateConfig"]_vars

\* Two monitors while the configuration says ten, in a round started since
C39_Witness ==
    /\ lastOp = "start"
    /\ game.phase = "running"
    /\ Len(monitors) = 2
    /\ config.monitorCount = 10
    /\ portals = generatePortals(monitors)


\* C40: the request whose response is shown is the latest one received and
\* never an earlier one than the one shown before; a response that arrives
\* after the response to a later request changes nothing shown.
C40_NeverGoesBack ==
    /\ [](client.shown = client.lastReceivedId)
    /\ [][/\ client'.shown >= client.shown
          /\ (lastOp' = "fetchState" /\ lastArg' = "skipped")
               => client'.shown = client.shown]_vars

\* The response to request 1 skipped after the response to request 3 was
\* shown, request 2 still in flight
C40_Witness ==
    /\ lastOp = "fetchState"
    /\ lastArg = "skipped"
    /\ client.shown = 3
    /\ client.pending = {2}

=============================================================================
